---- MODULE Spec2Model ----
(***************************************************************************)
(* A model of midi-perform (src/main.rs): the startup that fills the note  *)
(* mapping table, the hot-plug loop of run() that keeps one connection per *)
(* visible device name, and midi_callback, which runs on one transport     *)
(* thread per connection and plays a mapping's event sequence against the  *)
(* shared key generator.                                                   *)
(*                                                                         *)
(* The modules midi, appstate and notemappings are declared in main.rs but *)
(* their files are not part of the sources; what main.rs calls in them     *)
(* (MidiNote, MidiMessage::new, AppState, NoteMappings::add/find/import,   *)
(* NoteMapping::down_event/up_event, the key generator's key_down/key_up)  *)
(* is modelled from the specification's description and marked so.        *)
(***************************************************************************)
EXTENDS Integers, Sequences, FiniteSets, TLC

\* ------------------------------------------------------------ bounds

\* The most ports one enumeration returns.
MaxPorts == 2
\* The number of poll cycles the loop is followed for.
MaxCycles == 2
\* The number of poll cycles the loop is followed for with devices that are
\* unplugged and plugged in again.
MaxPlugCycles == 3
\* How often one device is unplugged and plugged in again.
MaxReplugs == 1

\* --------------------------------------------------- program constants

MOD_DELAY_MS == 150
KEY_DELAY_MS == 40
SYS_DELAY_MS == 400
OCTAVE_DELAY_MS == 10

\* MidiNote::C1.index()
C1Index == 24
\* The first pad note and the pads' channel.
PadBase == 40
PadChannel == 9
\* The largest note index MidiNote::new accepts, and the largest channel.
MaxNote == 127
MaxChannel == 15

\* Option::None, for a device filter, a mappings path and a NoteMod key.
None == "None"

\* ---------------------------------------------------------------- keys

\* KbdKey: the named keys, and Layout(c) for a character key.
Named(n) == [key |-> n, ch |-> ""]
Layout(c) == [key |-> "Layout", ch |-> c]
Shift == Named("Shift")
Control == Named("Control")
Alt == Named("Alt")
Escape == Named("Escape")
\* NoteMod(None)
NoKey == Named(None)

\* -------------------------------------------------------------- events

\* notemappings::Event
Delay(ms) == [type |-> "Delay", key |-> NoKey, ms |-> ms]
KeyDown(k) == [type |-> "KeyDown", key |-> k, ms |-> 0]
KeyUp(k) == [type |-> "KeyUp", key |-> k, ms |-> 0]
NoteMod(kopt) == [type |-> "NoteMod", key |-> kopt, ms |-> 0]

\* ------------------------------------------------------- mapping table

\* NoteMapping::new(note, channel, None): a mapping with empty sequences.
NoteMapping(note, channel) ==
    [note |-> note, channel |-> channel, on |-> <<>>, off |-> <<>>]

\* NoteMapping::down_event(key, modifier, delay): set the modifier, then
\* press the character key.
down_event(c, kopt, delay) == <<NoteMod(kopt), KeyDown(Layout(c))>>

\* NoteMapping::up_event(key, modifier, delay): release the character key.
up_event(c, kopt, delay) == <<KeyUp(Layout(c))>>

\* NoteMappings::add: appends, no uniqueness enforced.
Add(table, m) == Append(table, m)

\* The channel of a mapping that matches every channel.
AnyChannel == -1

Matches(m, note, channel) ==
    /\ m.note = note
    /\ (m.channel = channel \/ m.channel = AnyChannel)

\* The Option::None of find.
NoMapping == NoteMapping(-1, -1)

\* NoteMappings::find(note, channel, None): the first mapping in insertion
\* order that matches, or None.
Find(table, note, channel) ==
    LET hits == {i \in DOMAIN table : Matches(table[i], note, channel)}
    IN  IF hits = {} THEN NoMapping
        ELSE table[CHOOSE i \in hits : \A j \in hits : i <= j]

\* The keys of generate_old_mappings, in order.
keys ==
    << "t", "h", "x", "g", "j", "e", "z", "p", "k", "f", "y", "m",
       "d", "w", "a", "u", "o", "r", "n", "e", "c", "t", "l", "i",
       "s", "g", "h", "v", "b", "d", "q", "a", "m", "e", "u", "o",
       "r", " ", "1", "2", "3", "4", "5", "6", "7", "8", "9", "0" >>

pads == << "z", "x", "c", "v", "b", "n", "m", "," >>

\* note_mapping_lo, with no modifier.
note_mapping_lo_plain(key_idx) ==
    [ NoteMapping(key_idx + C1Index, 0) EXCEPT
        !.on = down_event(keys[key_idx + 1], NoKey, MOD_DELAY_MS),
        !.off = up_event(keys[key_idx + 1], NoKey, MOD_DELAY_MS) ]

\* The two mappings of one key: key_idx counts from 0.
note_mapping_lo(key_idx) ==
    [ NoteMapping(key_idx + C1Index, 0) EXCEPT
        !.on = down_event(keys[key_idx + 1], Control, MOD_DELAY_MS),
        !.off = up_event(keys[key_idx + 1], Control, MOD_DELAY_MS) ]

note_mapping_mid(key_idx) ==
    [ NoteMapping(key_idx + C1Index + 12, 0) EXCEPT
        !.on = down_event(keys[key_idx + 1], NoKey, None),
        !.off = up_event(keys[key_idx + 1], NoKey, None) ]

\* The sequence of a pad button.
pad_seq(pad) ==
    << NoteMod(NoKey),
       KeyDown(Escape), Delay(KEY_DELAY_MS), KeyUp(Escape), Delay(SYS_DELAY_MS),
       KeyDown(Control), KeyDown(Alt), KeyDown(Shift),
       Delay(MOD_DELAY_MS),
       KeyDown(Layout(pad)), Delay(KEY_DELAY_MS), KeyUp(Layout(pad)),
       Delay(MOD_DELAY_MS),
       KeyUp(Shift), KeyUp(Alt), KeyUp(Control) >>

pad_mapping(pad_idx) ==
    [ NoteMapping(pad_idx + PadBase, PadChannel) EXCEPT
        !.on = pad_seq(pads[pad_idx + 1]) ]

\* The loop over keys: for each key, add its low and its middle mapping.
AddKeys(table) ==
    table \o [ i \in 1..(2 * Len(keys)) |->
                IF i % 2 = 1 THEN note_mapping_lo((i - 1) \div 2)
                             ELSE note_mapping_mid((i - 2) \div 2) ]

\* The loop over pads: add each pad's mapping.
AddPads(table) ==
    table \o [ i \in 1..Len(pads) |-> pad_mapping(i - 1) ]

\* generate_old_mappings(mappings)
generate_old_mappings(table) == AddPads(AddKeys(table))

\* ------------------------------------------------------- mappings file

\* The key names a mappings file may use.
KeyNames == {"a", "Escape"}

ParseKey(name) ==
    IF name = "Escape" THEN Escape ELSE Layout(name)

\* A line is the sequence of its whitespace-separated fields:
\* note channel keydown keyup.
LineOk(line) ==
    /\ Len(line) = 4
    /\ line[1] \in 0..MaxNote
    /\ line[2] \in 0..MaxChannel
    /\ line[3] \in KeyNames
    /\ line[4] \in KeyNames

ParseLine(line) ==
    [ NoteMapping(line[1], line[2]) EXCEPT
        !.on = <<KeyDown(ParseKey(line[3]))>>,
        !.off = <<KeyUp(ParseKey(line[4]))>> ]

\* Some(path), written as the file behind the path: whether it can be read,
\* and its lines.
File(readable, lines) == [given |-> TRUE, readable |-> readable, lines |-> lines]
\* No mappings path.
NoFile == [given |-> FALSE, readable |-> FALSE, lines |-> <<>>]

\* NoteMappings::import(path): Ok with the table replaced by the file's
\* mappings, or Err (an I/O error, a malformed line).
ImportOk(file) ==
    /\ file.readable
    /\ \A i \in DOMAIN file.lines : LineOk(file.lines[i])

Import(table, file) == [i \in DOMAIN file.lines |-> ParseLine(file.lines[i])]

RECURSIVE SeqsUpTo(_, _)
SeqsUpTo(S, n) ==
    IF n = 0 THEN {<<>>}
    ELSE LET shorter == SeqsUpTo(S, n - 1)
         IN  shorter \cup {Append(s, x) : s \in shorter, x \in S}

\* The files of the model: one that cannot be read, a well-formed one of two
\* lines, and three with a malformed line: a field missing, an unknown key,
\* a note out of range.
Files ==
    { File(FALSE, <<>>),
      File(TRUE, << <<C1Index, 0, "a", "a">>,
                    <<C1Index + 1, 0, "Escape", "Escape">> >>),
      File(TRUE, << <<C1Index, 0, "a", "a">>, <<C1Index, 0, "a">> >>),
      File(TRUE, << <<C1Index, 0, "a", "NoSuchKey">> >>),
      File(TRUE, << <<MaxNote + 1, 0, "a", "a">> >>) }

\* ------------------------------------------------------- key generator

\* What the key generator sends to the system, and a thread's sleep.
Press(k) == [op |-> "press", key |-> k, ms |-> 0]
Release(k) == [op |-> "release", key |-> k, ms |-> 0]
Slept(ms) == [op |-> "sleep", key |-> NoKey, ms |-> ms]

\* The key generator with the output it has produced: g.pressed are the keys
\* it holds down, g.out the presses, releases and sleeps so far, g.ret the
\* result of the last call.
Gen(pressed) == [pressed |-> pressed, out |-> <<>>, ret |-> FALSE]

\* keygen.key_down(k): press k unless it is held; whether it was pressed.
key_down(g, k) ==
    IF k \in g.pressed
    THEN [g EXCEPT !.ret = FALSE]
    ELSE [pressed |-> g.pressed \cup {k},
          out |-> Append(g.out, Press(k)),
          ret |-> TRUE]

\* keygen.key_up(k): release k if it is held; whether it was released.
key_up(g, k) ==
    IF k \notin g.pressed
    THEN [g EXCEPT !.ret = FALSE]
    ELSE [pressed |-> g.pressed \ {k},
          out |-> Append(g.out, Release(k)),
          ret |-> TRUE]

\* thread::sleep(ms)
sleep(g, ms) == [g EXCEPT !.out = Append(g.out, Slept(ms))]

\* ------------------------------------------------------ event sequence

\* The modifiers NoteMod tracks, in the order it visits them.
key_mods == <<Shift, Control>>

\* ModTurn, never releasing a modifier while one is asked for.
ModTurnKeep(a, key_mod, kopt) ==
    LET g == IF kopt # NoKey
               THEN IF key_mod = kopt THEN key_down(a.g, key_mod) ELSE a.g
               ELSE key_up(a.g, key_mod)
    IN  [g |-> g, changes |-> a.changes + IF g.ret THEN 1 ELSE 0]

\* ModTurn, releasing the other modifiers only for a tracked key or none.
ModTurnTracked(a, key_mod, kopt) ==
    LET tracked == \E i \in DOMAIN key_mods : key_mods[i] = kopt
        g == IF kopt # NoKey /\ key_mod = kopt
               THEN key_down(a.g, key_mod)
               ELSE IF kopt = NoKey \/ tracked
                      THEN key_up(a.g, key_mod)
                      ELSE a.g
    IN  [g |-> g, changes |-> a.changes + IF g.ret THEN 1 ELSE 0]

\* One turn of NoteMod's loop for key_mod: a is the key generator and the
\* count of changes so far.
ModTurn(a, key_mod, kopt) ==
    LET g == IF kopt # NoKey /\ key_mod = kopt
               THEN key_down(a.g, key_mod)
               ELSE key_up(a.g, key_mod)
    IN  [g |-> g, changes |-> a.changes + IF g.ret THEN 1 ELSE 0]

RECURSIVE ModLoop(_, _, _)
ModLoop(a, i, kopt) ==
    IF i > Len(key_mods) THEN a
    ELSE ModLoop(ModTurn(a, key_mods[i], kopt), i + 1, kopt)

\* NoteModEvent, pausing only when more than one modifier changed.
NoteModPauseLate(g, kopt) ==
    LET a == ModLoop([g |-> g, changes |-> 0], 1, kopt)
    IN  IF a.changes > 1 THEN sleep(a.g, OCTAVE_DELAY_MS) ELSE a.g

\* NoteModEvent, pausing whether or not anything changed.
NoteModPause(g, kopt) ==
    sleep(ModLoop([g |-> g, changes |-> 0], 1, kopt).g, OCTAVE_DELAY_MS)

\* Event::NoteMod(kopt): bring the tracked modifiers to kopt, and pause if
\* anything changed.
NoteModEvent(g, kopt) ==
    LET a == ModLoop([g |-> g, changes |-> 0], 1, kopt)
    IN  IF a.changes > 0 THEN sleep(a.g, OCTAVE_DELAY_MS) ELSE a.g

\* One event of a sequence, as midi_callback's loop runs it.
ExecEvent(g, event) ==
    CASE event.type = "Delay" -> sleep(g, event.ms)
      [] event.type = "KeyDown" -> key_down(g, event.key)
      [] event.type = "KeyUp" -> key_up(g, event.key)
      [] event.type = "NoteMod" -> NoteModEvent(g, event.key)

\* ------------------------------------------------------------ messages

\* MidiMessage::new(raw): a note-on (status 9x) or note-off (status 8x) of
\* three bytes parses, x its channel; anything else is an error.
Parse(raw) ==
    IF Len(raw) = 3 /\ raw[1] \div 16 \in {8, 9} /\ raw[2] <= MaxNote
    THEN [ok |-> TRUE,
          event |-> IF raw[1] \div 16 = 9 THEN "NoteOn" ELSE "NoteOff",
          note |-> raw[2],
          channel |-> raw[1] % 16]
    ELSE [ok |-> FALSE, event |-> "", note |-> 0, channel |-> 0]

\* midi_callback, lines 84-87: the sequence of the message's event.
SequenceOf(note_mapping, msg) ==
    IF msg.event = "NoteOn" THEN note_mapping.on ELSE note_mapping.off

\* ------------------------------------------------------------ devices

\* The device names that ports resolve to.
Names == {"A", "B", "C"}

\* A port is written as the name it resolves to.

\* --------------------------------------------------------------- state

VARIABLES
    midi_name,      \* run's device filter: None or a name
    mappings_file,  \* run's mappings path: NoFile or the file behind it
    pc,             \* where the main thread is in run()
    mappings,       \* app_state.mappings(): the mapping table
    midi_ports,     \* run's registry: name -> connection
    ports,          \* the ports of this cycle still to be looked at
    seen_names,     \* the names resolved in this cycle
    printed,        \* the lines the main thread's latest step printed
    cb,             \* per connection name, its thread's place in midi_callback
    keygen_lock,    \* the holder of app_state.keygen()'s mutex, or None
    mappings_lock,  \* the holder of app_state.mappings()'s mutex, or None
    pressed,        \* the keys the key generator holds down
    established,    \* history: per name, the "Connection established" lines
    disconnected,   \* history: per name, the "Disconnected from" lines
    unable,         \* history: the "Unable to connect" lines
    seen_log,       \* history: per finished cycle, its seen_names
    epoch,          \* history: per name, how often the device was replugged
    conn_epoch,     \* history: per name, the epoch its connection was made in
    unresolved_log, \* history: per cycle, the names port_name failed for
    last,           \* history: the engine's latest event and its effect
    prev            \* history: the engine's event before the latest

config == << midi_name, mappings_file >>
mainVars == << pc, mappings, midi_ports, ports, seen_names, printed >>
cbVars == << cb, keygen_lock, mappings_lock, pressed >>
\* The history of the hot-plug loop's output.
history == << established, disconnected, unable, seen_log >>

\* The history of the events run one at a time.
engine == << last, prev >>

\* The history of the devices behind the ports.
plug == << epoch, conn_epoch, unresolved_log >>

vars == << config, mainVars, cbVars, history, engine, plug >>

\* A transport thread outside midi_callback.
\* trace is what the callback has sent and slept so far, pressed0 the keys
\* held when it locked the key generator.
Idle ==
    [pc |-> "idle", raw |-> <<>>, seq |-> <<>>, i |-> 0, trace |-> <<>>,
     pressed0 |-> {}]

\* No event yet.
NoEvent == [event |-> Delay(0), before |-> {}, after |-> {}, out |-> <<>>]

\* A line of the main thread's output.
Line(kind, name) == [kind |-> kind, name |-> name]

\* ------------------------------------------------------------- startup

\* The state before the main thread, at start, has run anything.
Begin(start) ==
    /\ midi_name \in {None, "B"}
    /\ mappings_file \in {NoFile} \cup Files
    /\ pc = start
    /\ mappings = <<>>
    /\ midi_ports = <<>>
    /\ ports = <<>>
    /\ seen_names = {}
    /\ printed = {}
    /\ cb = [n \in Names |-> Idle]
    /\ keygen_lock = None
    /\ mappings_lock = None
    /\ pressed = {}
    /\ established = [n \in Names |-> 0]
    /\ disconnected = [n \in Names |-> 0]
    /\ unable = 0
    /\ seen_log = <<>>
    /\ last = NoEvent
    /\ prev = NoEvent
    /\ epoch = [n \in Names |-> 0]
    /\ conn_epoch = [n \in Names |-> 0]
    /\ unresolved_log = <<>>

Init == Begin("start")

\* Loaded, generating the table first and adding the file's mappings to it.
LoadedBoth(table, file) ==
    IF file.given
    THEN generate_old_mappings(table) \o Import(table, file)
    ELSE generate_old_mappings(table)

\* The table run leaves behind lines 219-227: the file's, or the generated.
Loaded(table, file) ==
    IF file.given THEN Import(table, file) ELSE generate_old_mappings(table)

\* LoadMappings, falling back to the generated table when the import fails.
LoadMappingsFallback ==
    /\ pc = "start"
    /\ mappings_lock = None
    /\ IF mappings_file.given /\ ~ImportOk(mappings_file)
         THEN mappings' = generate_old_mappings(mappings)
         ELSE mappings' = Loaded(mappings, mappings_file)
    /\ pc' = "loop"
    /\ printed' = {}
    /\ UNCHANGED << config, midi_ports, ports, seen_names, cbVars >>

\* run, lines 219-227: under the table's lock, fill the table from the file
\* or from the generator; a failed import panics (unwrap).
LoadMappings ==
    /\ pc = "start"
    /\ mappings_lock = None
    /\ IF mappings_file.given /\ ~ImportOk(mappings_file)
         THEN /\ mappings' = mappings
              /\ pc' = "panicked"
         ELSE /\ mappings' = Loaded(mappings, mappings_file)
              /\ pc' = "loop"
    /\ printed' = {}
    /\ UNCHANGED << config, midi_ports, ports, seen_names, cbVars >>

\* ------------------------------------------------------- hot-plug loop

\* run, lines 230-234: enumerate the ports, start with nothing seen.
Enumerate(lists) ==
    /\ pc = "loop"
    /\ \E list \in lists : ports' = list
    /\ seen_names' = {}
    /\ pc' = "ports"
    /\ printed' = {}
    /\ UNCHANGED << config, mappings, midi_ports, cbVars >>

\* PortNameErr, recording the port's name as seen all the same.
PortNameErrSeen ==
    /\ pc = "ports"
    /\ ports # <<>>
    /\ seen_names' = seen_names \cup {Head(ports)}
    /\ ports' = Tail(ports)
    /\ printed' = {}
    /\ UNCHANGED << config, pc, mappings, midi_ports, cbVars >>

\* run, lines 240-241: the port's name cannot be resolved; next port.
PortNameErr ==
    /\ pc = "ports"
    /\ ports # <<>>
    /\ ports' = Tail(ports)
    /\ printed' = {}
    /\ UNCHANGED << config, pc, mappings, midi_ports, seen_names, cbVars >>

\* run, lines 243-247: the name is seen and already in the registry.
PortKnown ==
    /\ pc = "ports"
    /\ ports # <<>>
    /\ Head(ports) \in DOMAIN midi_ports
    /\ seen_names' = seen_names \cup {Head(ports)}
    /\ ports' = Tail(ports)
    /\ printed' = {}
    /\ UNCHANGED << config, pc, mappings, midi_ports, cbVars >>

\* Filtered, with the comparison turned around.
FilteredSame(name) == midi_name # None /\ midi_name = name

\* run, lines 250-254: a device filter is set and this is another device.
Filtered(name) == midi_name # None /\ midi_name # name

PortFiltered ==
    /\ pc = "ports"
    /\ ports # <<>>
    /\ Head(ports) \notin DOMAIN midi_ports
    /\ Filtered(Head(ports))
    /\ seen_names' = seen_names \cup {Head(ports)}
    /\ ports' = Tail(ports)
    /\ printed' = {}
    /\ UNCHANGED << config, pc, mappings, midi_ports, cbVars >>

\* IsNew, without the look into the registry.
IsNewUnchecked(name) == ~Filtered(name)

\* IsNew, giving up once a connect has failed.
IsNewNoRetry(name) ==
    /\ name \notin DOMAIN midi_ports
    /\ ~Filtered(name)
    /\ unable = 0

\* Whether run goes on to connect to a resolved name (lines 245-254).
IsNew(name) ==
    /\ name \notin DOMAIN midi_ports
    /\ ~Filtered(name)

\* HashMap::insert: the entry of the key is set, an old one is replaced.
Insert(map, k, v) ==
    [x \in DOMAIN map \cup {k} |-> IF x = k THEN v ELSE map[x]]

\* The connection midi_in.connect returns for a port.
Connection(name) == [port |-> name]

\* run, lines 257-271, Ok: the connection is reported and registered.
ConnectOk ==
    /\ pc = "ports"
    /\ ports # <<>>
    /\ IsNew(Head(ports))
    /\ printed' = {Line("established", Head(ports))}
    /\ midi_ports' = Insert(midi_ports, Head(ports), Connection(Head(ports)))
    /\ seen_names' = seen_names \cup {Head(ports)}
    /\ ports' = Tail(ports)
    /\ UNCHANGED << config, pc, mappings, cbVars >>

\* run, lines 257-267, Err: the failure is reported, nothing is registered.
ConnectErr ==
    /\ pc = "ports"
    /\ ports # <<>>
    /\ IsNew(Head(ports))
    /\ printed' = {Line("unable", Head(ports))}
    /\ seen_names' = seen_names \cup {Head(ports)}
    /\ ports' = Tail(ports)
    /\ UNCHANGED << config, pc, mappings, midi_ports, cbVars >>

\* to_delete, with the test turned around.
to_delete_seen == {name \in DOMAIN midi_ports : name \in seen_names}

\* run, lines 277-282: the registered names not seen in this cycle.
to_delete == {name \in DOMAIN midi_ports : name \notin seen_names}

\* Remove, removing nothing.
RemoveNothing(map, gone) == map

\* HashMap::remove of every name of a set.
Remove(map, gone) == [x \in DOMAIN map \ gone |-> map[x]]

\* Reap, releasing the held keys when a connection is dropped.
ReapReleasing ==
    /\ pc = "ports"
    /\ ports = <<>>
    /\ \A name \in to_delete : cb[name].pc = "idle"
    /\ printed' = {Line("disconnected", name) : name \in to_delete}
    /\ midi_ports' = Remove(midi_ports, to_delete)
    /\ pc' = "sleep"
    /\ pressed' = IF to_delete = {} THEN pressed ELSE {}
    /\ UNCHANGED << config, mappings, ports, seen_names, cb, keygen_lock,
                    mappings_lock >>

\* run, lines 277-286: report and drop the connections not seen.  Dropping a
\* connection joins its transport thread, so a callback of it still running
\* is waited for.
Reap ==
    /\ pc = "ports"
    /\ ports = <<>>
    /\ \A name \in to_delete : cb[name].pc = "idle"
    /\ printed' = {Line("disconnected", name) : name \in to_delete}
    /\ midi_ports' = Remove(midi_ports, to_delete)
    /\ pc' = "sleep"
    /\ UNCHANGED << config, mappings, ports, seen_names, cbVars >>

\* run, line 287: sleep a second, then the next cycle.
Sleep ==
    /\ pc = "sleep"
    /\ pc' = "loop"
    /\ printed' = {}
    /\ UNCHANGED << config, mappings, midi_ports, ports, seen_names, cbVars >>

\* ------------------------------------------------------- midi_callback

\* The transport delivers raw to the connection of name t: its thread
\* enters midi_callback.
Deliver(t, raw) ==
    /\ t \in DOMAIN midi_ports
    /\ cb[t].pc = "idle"
    /\ cb' = [cb EXCEPT ![t] = [Idle EXCEPT !.pc = "lock", !.raw = raw]]
    /\ UNCHANGED << config, mainVars, keygen_lock, mappings_lock, pressed >>

\* Whether a thread that asks for a mutex gets it.
Free(lock) == lock = None

\* LockKeygen, not waiting for the holder.
LockKeygenNoWait(t) ==
    /\ cb[t].pc = "lock"
    /\ keygen_lock' = t
    /\ cb' = [cb EXCEPT ![t].pc = "locked", ![t].pressed0 = pressed]
    /\ UNCHANGED << config, mainVars, mappings_lock, pressed >>

\* midi_callback, line 74: lock the key generator.
LockKeygen(t) ==
    /\ cb[t].pc = "lock"
    /\ Free(keygen_lock)
    /\ keygen_lock' = t
    /\ cb' = [cb EXCEPT ![t].pc = "locked", ![t].pressed0 = pressed]
    /\ UNCHANGED << config, mainVars, mappings_lock, pressed >>

\* Lookup, keeping the table locked when there is no mapping.
LookupKeepsLock(t) ==
    /\ cb[t].pc = "locked"
    /\ LET msg == Parse(cb[t].raw)
           note_mapping == Find(mappings, msg.note, msg.channel)
       IN  IF ~msg.ok
           THEN /\ cb' = [cb EXCEPT ![t].pc = "return"]
                /\ UNCHANGED mappings_lock
           ELSE /\ Free(mappings_lock)
                /\ mappings_lock' = t
                /\ IF note_mapping = NoMapping
                   THEN cb' = [cb EXCEPT ![t].pc = "return"]
                   ELSE cb' = [cb EXCEPT
                                 ![t].pc = "exec",
                                 ![t].seq = SequenceOf(note_mapping, msg),
                                 ![t].i = 1]
    /\ UNCHANGED << config, mainVars, keygen_lock, pressed >>

\* midi_callback, lines 76-87 and 133-137: parse the message; if it parses,
\* lock the table and find the mapping.  With a mapping the thread goes on
\* to its sequence, the table still locked; without, to the end.
Lookup(t) ==
    /\ cb[t].pc = "locked"
    /\ LET msg == Parse(cb[t].raw)
           note_mapping == Find(mappings, msg.note, msg.channel)
       IN  IF ~msg.ok
           THEN /\ cb' = [cb EXCEPT ![t].pc = "return"]
                /\ UNCHANGED mappings_lock
           ELSE /\ Free(mappings_lock)
                /\ IF note_mapping = NoMapping
                   THEN /\ cb' = [cb EXCEPT ![t].pc = "return"]
                        /\ UNCHANGED mappings_lock
                   ELSE /\ cb' = [cb EXCEPT
                                    ![t].pc = "exec",
                                    ![t].seq = SequenceOf(note_mapping, msg),
                                    ![t].i = 1]
                        /\ mappings_lock' = t
    /\ UNCHANGED << config, mainVars, keygen_lock, pressed >>

\* ExecNext, going through the sequence from its end.
ExecNextBackwards(t) ==
    /\ cb[t].pc = "exec"
    /\ cb[t].i <= Len(cb[t].seq)
    /\ LET g == ExecEvent(Gen(pressed),
                          cb[t].seq[Len(cb[t].seq) + 1 - cb[t].i])
       IN  /\ pressed' = g.pressed
           /\ cb' = [cb EXCEPT ![t].i = @ + 1, ![t].trace = @ \o g.out]
    /\ UNCHANGED << config, mainVars, keygen_lock, mappings_lock >>

\* midi_callback, lines 90-131: the next event of the sequence.
ExecNext(t) ==
    /\ cb[t].pc = "exec"
    /\ cb[t].i <= Len(cb[t].seq)
    /\ LET g == ExecEvent(Gen(pressed), cb[t].seq[cb[t].i])
       IN  /\ pressed' = g.pressed
           /\ cb' = [cb EXCEPT ![t].i = @ + 1, ![t].trace = @ \o g.out]
    /\ UNCHANGED << config, mainVars, keygen_lock, mappings_lock >>

\* midi_callback, lines 131-136: the sequence is over, the table's guard
\* is dropped.
EndSeq(t) ==
    /\ cb[t].pc = "exec"
    /\ cb[t].i > Len(cb[t].seq)
    /\ mappings_lock' = None
    /\ cb' = [cb EXCEPT ![t].pc = "return"]
    /\ UNCHANGED << config, mainVars, keygen_lock, pressed >>

\* Return, leaving the key generator locked.
ReturnKeepsLock(t) ==
    /\ cb[t].pc = "return"
    /\ cb' = [cb EXCEPT ![t] = Idle]
    /\ UNCHANGED << config, mainVars, keygen_lock, mappings_lock, pressed >>

\* midi_callback, line 147: the key generator's guard is dropped, the
\* callback returns.
Return(t) ==
    /\ cb[t].pc = "return"
    /\ keygen_lock' = None
    /\ cb' = [cb EXCEPT ![t] = Idle]
    /\ UNCHANGED << config, mainVars, mappings_lock, pressed >>

\* The messages the model delivers: note-on and note-off of the first low
\* key, note-on of the first middle key, of the first pad and of a note
\* with no mapping, a control change and a message cut short.
RawMessages ==
    { <<144, C1Index, 100>>, <<128, C1Index, 0>>,
      <<144, C1Index + 12, 100>>,
      <<144 + PadChannel, PadBase, 100>>,
      <<144, 0, 100>>,
      <<176, 7, 100>>,
      <<144, C1Index>> }

\* ------------------------------------------------------- specifications

\* The enumerations of the whole program's model.
FewPortLists == {<<>>, <<"A">>, <<"A", "B">>}

\* The whole program is followed with no device filter and with the filter B.
InitRun == Init /\ midi_name \in {None, "B"}

Next ==
    \/ LoadMappings /\ UNCHANGED << history, engine, plug >>
    \/ Enumerate(FewPortLists) /\ UNCHANGED << history, engine, plug >>
    \/ PortNameErr /\ UNCHANGED << history, engine, plug >>
    \/ PortKnown /\ UNCHANGED << history, engine, plug >>
    \/ PortFiltered /\ UNCHANGED << history, engine, plug >>
    \/ ConnectOk /\ UNCHANGED << history, engine, plug >>
    \/ ConnectErr /\ UNCHANGED << history, engine, plug >>
    \/ Reap /\ UNCHANGED << history, engine, plug >>
    \/ Sleep /\ UNCHANGED << history, engine, plug >>
    \/ \E t \in Names, raw \in RawMessages :
         Deliver(t, raw) /\ UNCHANGED << history, engine, plug >>
    \/ \E t \in Names : LockKeygen(t) /\ UNCHANGED << history, engine, plug >>
    \/ \E t \in Names : Lookup(t) /\ UNCHANGED << history, engine, plug >>
    \/ \E t \in Names : ExecNext(t) /\ UNCHANGED << history, engine, plug >>
    \/ \E t \in Names : EndSeq(t) /\ UNCHANGED << history, engine, plug >>
    \/ \E t \in Names : Return(t) /\ UNCHANGED << history, engine, plug >>

\* The whole program.
Spec == InitRun /\ [][Next]_vars

\* What ports() may return, for the hot-plug loop alone.
PortLists == SeqsUpTo(Names, MaxPorts)

Count(kind, name) == IF Line(kind, name) \in printed' THEN 1 ELSE 0

\* The history of a step of the main thread: the lines it printed are
\* counted, a finished cycle's seen names are logged.  The loop is followed
\* for a number of cycles.
Counted(cycles) ==
    /\ (pc = "loop" /\ pc' = "ports") => Len(seen_log) < cycles
    /\ established' =
         [n \in Names |-> established[n] + Count("established", n)]
    /\ disconnected' =
         [n \in Names |-> disconnected[n] + Count("disconnected", n)]
    /\ unable' = unable + Cardinality({l \in printed' : l.kind = "unable"})
    /\ seen_log' = IF pc = "ports" /\ pc' = "sleep"
                     THEN Append(seen_log, seen_names)
                     ELSE seen_log
    /\ UNCHANGED << cbVars, engine >>

\* The hot-plug loop is followed for MaxCycles cycles.
Logged == Counted(MaxCycles) /\ UNCHANGED plug

\* The loop never reads the table: it is followed with the table of the
\* well-formed file.
InitPoll == Init /\ mappings_file.given /\ ImportOk(mappings_file)

NextPoll ==
    \/ LoadMappings /\ Logged
    \/ Enumerate(PortLists) /\ Logged
    \/ PortNameErr /\ Logged
    \/ PortKnown /\ Logged
    \/ PortFiltered /\ Logged
    \/ ConnectOk /\ Logged
    \/ ConnectErr /\ Logged
    \/ Reap /\ Logged
    \/ Sleep /\ Logged

\* The hot-plug loop with no message arriving, and the history of its
\* output.
SpecPoll == InitPoll /\ [][NextPoll]_vars

\* ---------------------------------------------------- the engine alone

\* The keys and the events midi_callback's loop is run on, one event at a
\* time, from every set of held keys.
EngineKeys == {Shift, Control, Alt, Layout("a")}

EngineEvents ==
    {NoteMod(k) : k \in EngineKeys \cup {NoKey}}
        \cup {KeyDown(k) : k \in EngineKeys}
        \cup {KeyUp(k) : k \in EngineKeys}
        \cup {Delay(KEY_DELAY_MS)}

\* midi_callback, lines 90-131, for one event: the key generator runs it,
\* and what it did is kept.
RunEvent(event) ==
    /\ pc = "engine"
    /\ LET g == ExecEvent(Gen(pressed), event)
       IN  /\ pressed' = g.pressed
           /\ last' = [event |-> event, before |-> pressed,
                       after |-> g.pressed, out |-> g.out]
    /\ prev' = last
    /\ UNCHANGED << config, mainVars, cb, keygen_lock, mappings_lock,
                    history, plug >>

InitEngine == Begin("engine") /\ midi_name = None /\ ~mappings_file.given

NextEngine == \E event \in EngineEvents : RunEvent(event)

\* The event loop of midi_callback on arbitrary events.
SpecEngine == InitEngine /\ [][NextEngine]_vars

\* ------------------------------------------------ the program, scheduled

\* The enumerations and the messages of the scheduled program: all three
\* devices come and go together, every name resolves and every connect
\* succeeds; the devices play the first pad, whose sequence is the longest
\* and sleeps five times, and a note with no mapping.
FairPortLists == {<<>>, <<"A", "B", "C">>}

FairMessages ==
    { <<144 + PadChannel, PadBase, 100>>,
      <<144, 0, 100>> }

InitFair == Init /\ midi_name = None /\ ~mappings_file.given

\* The thread of connection t takes the key generator's lock.
Locking(t) == LockKeygen(t) /\ UNCHANGED << history, engine, plug >>

\* A step of the thread of connection t that holds the lock.
Running(t) ==
    /\ \/ Lookup(t)
       \/ ExecNext(t)
       \/ EndSeq(t)
       \/ Return(t)
    /\ UNCHANGED << history, engine, plug >>

NextFair ==
    \/ LoadMappings /\ UNCHANGED << history, engine, plug >>
    \/ Enumerate(FairPortLists) /\ UNCHANGED << history, engine, plug >>
    \/ PortKnown /\ UNCHANGED << history, engine, plug >>
    \/ ConnectOk /\ UNCHANGED << history, engine, plug >>
    \/ Reap /\ UNCHANGED << history, engine, plug >>
    \/ Sleep /\ UNCHANGED << history, engine, plug >>
    \/ \E t \in Names, raw \in FairMessages :
         Deliver(t, raw) /\ UNCHANGED << history, engine, plug >>
    \/ \E t \in Names : Locking(t)
    \/ \E t \in Names : Running(t)

\* The scheduler runs every thread that can take a step, and a thread that
\* waits for the key generator's mutex gets it at one of the times it is
\* free.  The transport may deliver no further message.
Fairness ==
    \A t \in Names :
        /\ WF_vars(Running(t))
        /\ SF_vars(Locking(t))

\* The program under a fair scheduler.
SpecFair == InitFair /\ [][NextFair]_vars /\ Fairness

\* ------------------------------------------- the loop and its devices

\* The history of a step of the main thread, with the devices': a
\* connection is made to the device as it is plugged in at that time.
Plugged ==
    /\ Counted(MaxPlugCycles)
    /\ epoch' = epoch
    /\ conn_epoch' =
         [n \in Names |->
            IF Line("established", n) \in printed'
            THEN epoch[n] ELSE conn_epoch[n]]

\* The names port_name failed for in the cycle under way.
Unresolved ==
    IF unresolved_log = <<>> THEN {}
    ELSE unresolved_log[Len(unresolved_log)]

\* The device of a registered name is unplugged and plugged in again while
\* the loop sleeps between two enumerations: its ports are new ones.
Replug(n) ==
    /\ pc = "sleep"
    /\ n \in DOMAIN midi_ports
    /\ epoch[n] < MaxReplugs
    /\ epoch' = [epoch EXCEPT ![n] = @ + 1]
    /\ UNCHANGED << config, mainVars, cbVars, history, engine,
                    conn_epoch, unresolved_log >>

InitPlug == InitPoll /\ midi_name = None

NextPlug ==
    \/ LoadMappings /\ Plugged /\ UNCHANGED unresolved_log
    \/ /\ Enumerate(FewPortLists) /\ Plugged
       /\ unresolved_log' = Append(unresolved_log, {})
    \/ /\ PortNameErr /\ Plugged
       /\ unresolved_log' =
            [unresolved_log EXCEPT ![Len(unresolved_log)] =
               @ \cup {Head(ports)}]
    \/ PortKnown /\ Plugged /\ UNCHANGED unresolved_log
    \/ ConnectOk /\ Plugged /\ UNCHANGED unresolved_log
    \/ ConnectErr /\ Plugged /\ UNCHANGED unresolved_log
    \/ Reap /\ Plugged /\ UNCHANGED unresolved_log
    \/ Sleep /\ Plugged /\ UNCHANGED unresolved_log
    \/ \E n \in Names : Replug(n)

\* The hot-plug loop with no device filter, no port listed twice, and
\* devices that are replugged or whose names fail to resolve.
SpecPlug == InitPlug /\ [][NextPlug]_vars

\* ------------------------------------------------------------- claims

\* The modifiers NoteMod tracks, as a set.
Tracked == {key_mods[i] : i \in DOMAIN key_mods}

\* How often x occurs in the output out.
Times(out, x) == Cardinality({i \in DOMAIN out : out[i] = x})

\* The presses and the releases of an output.
Presses(out) == {i \in DOMAIN out : out[i].op = "press"}
Releases(out) == {i \in DOMAIN out : out[i].op = "release"}

\* C2: after NoteMod(desired) with desired Shift, Control or none, from any
\* set of held keys: a tracked desired key is held and the other tracked
\* modifier is not; desired was pressed exactly if it was not held, and
\* nothing else was pressed; exactly the held tracked modifiers other than
\* desired were released, each once.  With desired none no tracked modifier
\* is held and nothing was pressed.
C2_ModifierSet ==
    (last.event.type = "NoteMod" /\ last.event.key \in Tracked \cup {NoKey}) =>
        LET desired == last.event.key
        IN  /\ \A k \in Tracked : k \in last.after <=> k = desired
            /\ \A k \in Tracked :
                 /\ Times(last.out, Press(k)) =
                      IF k = desired /\ k \notin last.before THEN 1 ELSE 0
                 /\ Times(last.out, Release(k)) =
                      IF k # desired /\ k \in last.before THEN 1 ELSE 0
            /\ \A i \in Presses(last.out) \cup Releases(last.out) :
                 last.out[i].key \in Tracked

\* C2's case: Control is set while Shift is held and Control is not.
C2_Witness ==
    /\ last.event = NoteMod(Control)
    /\ Shift \in last.before
    /\ Control \notin last.before
    /\ last.out = <<Release(Shift), Press(Control), Slept(OCTAVE_DELAY_MS)>>

\* C3: of two NoteMod events with the same desired key run one after the
\* other, the second presses nothing, releases nothing, does not sleep and
\* leaves the held keys as they were.
C3_Idempotent ==
    (last.event.type = "NoteMod" /\ prev.event = last.event) =>
        /\ last.out = <<>>
        /\ last.after = last.before

\* C3's case: Control is set twice in a row, and the first time changed
\* the held modifiers.
C3_Witness ==
    /\ last.event = NoteMod(Control)
    /\ prev.event = last.event
    /\ prev.out # <<>>
    /\ last.before = prev.after

\* Whether thread t is in midi_callback with the key generator locked.
Holding(t) == cb[t].pc \in {"locked", "exec", "return"}

\* C1: while a callback holds the key generator, from locking it to its
\* return, every other thread is outside midi_callback or waits for the
\* lock, and has sent and slept nothing: the events and delays of two
\* callbacks never interleave.
C1_Serialized ==
    \A t \in Names :
        Holding(t) =>
            /\ keygen_lock = t
            /\ \A u \in Names \ {t} :
                 /\ cb[u].pc \in {"idle", "lock"}
                 /\ cb[u].trace = <<>>

\* C1's case: the callback of A is in the middle of the pad's sequence, past
\* a delay, and the callback of B waits for the lock.
C1_Witness ==
    /\ cb["A"].pc = "exec"
    /\ cb["A"].i > 3
    /\ cb["A"].i <= Len(cb["A"].seq)
    /\ Slept(KEY_DELAY_MS) \in {cb["A"].trace[i] : i \in DOMAIN cb["A"].trace}
    /\ cb["B"].pc = "lock"

\* C4, as claimed: find on the (note, channel) of every mapping of the table
\* returns that mapping, and find on a pair that no mapping has returns none.
C4_FindReturnsAdded ==
    /\ \A i \in DOMAIN mappings :
         Find(mappings, mappings[i].note, mappings[i].channel) = mappings[i]
    /\ \A note \in {0, C1Index, PadBase}, channel \in {0, 1, PadChannel} :
         (\A i \in DOMAIN mappings :
            mappings[i].note # note \/ mappings[i].channel # channel)
         => Find(mappings, note, channel) = NoMapping

\* C5: with no filter and no connect failure, when the first cycle saw
\* {A, B} and the second {B, C}, then after the second cycle B and C are
\* registered and A is not, B was connected once and never disconnected, and
\* the lines printed are one "established" for each of A, B, C and one
\* "disconnected" for A.
C5_HotPlug ==
    ( /\ midi_name = None
      /\ unable = 0
      /\ seen_log = << {"A", "B"}, {"B", "C"} >>
      /\ pc \in {"sleep", "loop"} ) =>
        /\ DOMAIN midi_ports = {"B", "C"}
        /\ midi_ports["B"] = Connection("B")
        /\ established = [n \in Names |-> 1]
        /\ disconnected = [n \in Names |-> IF n = "A" THEN 1 ELSE 0]

\* C5's case: the second cycle, which saw {B, C} after {A, B}, has just
\* disconnected A.
C5_Witness ==
    /\ midi_name = None
    /\ unable = 0
    /\ seen_log = << {"A", "B"}, {"B", "C"} >>
    /\ pc = "sleep"
    /\ DOMAIN midi_ports = {"B", "C"}
    /\ printed = {Line("disconnected", "A")}

\* C6: per name, the connections reported established and not reported
\* disconnected are one if the name is registered and none otherwise: a
\* registered name is never connected to again.
C6_OnePerName ==
    \A n \in Names :
        established[n] - disconnected[n] =
            IF n \in DOMAIN midi_ports THEN 1 ELSE 0

\* C6's case: in the first cycle A was connected, and the next port of the
\* same enumeration resolves to A too.
C6_Witness ==
    /\ seen_log = <<>>
    /\ pc = "ports"
    /\ "A" \in DOMAIN midi_ports
    /\ "A" \in seen_names
    /\ ports = <<"A">>

\* The first low mapping's note-on message.
NoteOnLow == <<144, C1Index, 100>>

\* C7: with the generated table, the callback of the first low key's
\* note-on, begun with no tracked modifier held, runs NoteMod(Control) and
\* then KeyDown of the key t.  Once the first is run, Control was pressed,
\* the settle delay slept, and Control is held; the key t is sent only
\* after that, and is held once the second is run.
C7_ControlThenKey ==
    \A t \in Names :
        ( /\ ~mappings_file.given
          /\ cb[t].raw = NoteOnLow
          /\ cb[t].pc \in {"exec", "return"}
          /\ cb[t].pressed0 \cap Tracked = {} ) =>
            LET trace == cb[t].trace
                char_key == Layout(keys[1])
            IN  /\ cb[t].seq = <<NoteMod(Control), KeyDown(char_key)>>
                /\ cb[t].i = 1 => trace = <<>>
                /\ cb[t].i >= 2 =>
                     /\ SubSeq(trace, 1, 2) =
                          <<Press(Control), Slept(OCTAVE_DELAY_MS)>>
                     /\ Control \in pressed
                /\ cb[t].i = 2 => Len(trace) = 2
                /\ cb[t].i = 3 =>
                     /\ char_key \in pressed
                     /\ trace = <<Press(Control), Slept(OCTAVE_DELAY_MS)>>
                                  \o IF char_key \in cb[t].pressed0
                                       THEN <<>> ELSE <<Press(char_key)>>

\* C7's case: from no key held, the callback has run both events.
C7_Witness ==
    /\ ~mappings_file.given
    /\ midi_name = None
    /\ cb["A"].raw = NoteOnLow
    /\ cb["A"].pc = "return"
    /\ cb["A"].pressed0 = {}
    /\ cb["A"].trace =
         <<Press(Control), Slept(OCTAVE_DELAY_MS), Press(Layout("t"))>>

\* C8: before the table is filled nothing is enumerated or registered; once
\* it is filled it is the file's table if a path was given and the
\* generated table otherwise, and no step changes it again.
C8_FilledOnce ==
    /\ [](pc \in {"start", "panicked"} =>
            /\ mappings = <<>>
            /\ midi_ports = <<>>
            /\ ports = <<>>
            /\ \A t \in Names : cb[t] = Idle)
    /\ [](pc \notin {"start", "panicked"} =>
            mappings = IF mappings_file.given
                         THEN Import(<<>>, mappings_file)
                         ELSE generate_old_mappings(<<>>))
    /\ [][pc # "start" => mappings' = mappings]_vars

\* C8's case: a path was given, the second cycle is under way and a
\* callback plays a sequence of the file's table.
C8_Witness ==
    /\ mappings_file.given
    /\ mappings # <<>>
    /\ pc = "ports"
    /\ "B" \in DOMAIN midi_ports
    /\ cb["A"].pc = "exec"
    /\ cb["A"].seq = <<KeyDown(Layout("a"))>>

\* Whether the message of thread t does not parse or has no mapping.
Unplayable(t) ==
    \/ ~Parse(cb[t].raw).ok
    \/ Find(mappings, Parse(cb[t].raw).note, Parse(cb[t].raw).channel)
         = NoMapping

\* C9: a callback whose message does not parse or has no mapping sends and
\* sleeps nothing, leaves the held keys as they were and does not keep the
\* table's lock; and when no thread is past the key generator's lock both
\* locks are free, so the next message is taken.
C9_NothingPlayed ==
    /\ \A t \in Names :
         (Holding(t) /\ Unplayable(t)) =>
            /\ cb[t].pc # "exec"
            /\ cb[t].trace = <<>>
            /\ pressed = cb[t].pressed0
            /\ mappings_lock # t
    /\ (\A t \in Names : ~Holding(t)) =>
            /\ keygen_lock = None
            /\ mappings_lock = None

\* C9's case: a note with no mapping was looked up while Control is held,
\* and the callback is about to return.
C9_Witness ==
    /\ cb["A"].raw = <<144, 0, 100>>
    /\ cb["A"].pc = "return"
    /\ Control \in pressed
    /\ cb["B"].pc = "lock"

\* C10: with a device filter, only the filter's name is ever registered,
\* and every line about a connect attempt is about that name.
C10_FilterOnly ==
    midi_name # None =>
        /\ \A n \in DOMAIN midi_ports : n = midi_name
        /\ \A n \in Names \ {midi_name} : established[n] = 0
        /\ \A l \in printed :
             l.kind \in {"established", "unable"} => l.name = midi_name

\* C10's case: with the filter B, the cycle has seen A and B, and B alone
\* is registered.
C10_Witness ==
    /\ midi_name = "B"
    /\ seen_names = {"A", "B"}
    /\ DOMAIN midi_ports = {"B"}
    /\ established = [n \in Names |-> IF n = "B" THEN 1 ELSE 0]

\* C11: when a mappings file is given and its import fails, run never gets
\* past the import: nothing is enumerated, nothing is registered, no
\* callback runs, no key is sent, and the table stays empty: the generated
\* table is not used instead.
C11_ImportFailureAborts ==
    (mappings_file.given /\ ~ImportOk(mappings_file)) =>
        /\ pc \in {"start", "panicked"}
        /\ mappings = <<>>
        /\ midi_ports = <<>>
        /\ ports = <<>>
        /\ seen_names = {}
        /\ \A t \in Names : cb[t] = Idle
        /\ pressed = {}
        /\ keygen_lock = None

\* C11's case: the file of the path given has a malformed line, and run has
\* panicked on it.
C11_Witness ==
    /\ mappings_file.given
    /\ mappings_file.readable
    /\ ~ImportOk(mappings_file)
    /\ pc = "panicked"

\* The key generator after the first n events of seq, run one after the
\* other from g.
RECURSIVE RunSeq(_, _, _)
RunSeq(g, seq, n) ==
    IF n = 0 THEN g ELSE ExecEvent(RunSeq(g, seq, n - 1), seq[n])

\* The milliseconds of the Delay events among the first n events of seq.
RECURSIVE DelaySum(_, _)
DelaySum(seq, n) ==
    IF n = 0 THEN 0
    ELSE DelaySum(seq, n - 1) + IF seq[n].type = "Delay" THEN seq[n].ms ELSE 0

\* The milliseconds slept in an output.
RECURSIVE SleptSum(_)
SleptSum(out) ==
    IF out = <<>> THEN 0 ELSE out[1].ms + SleptSum(Tail(out))

\* C12: a callback that is at event i of its sequence has sent and slept
\* exactly what the events 1 .. i-1 produce when run one after the other, in
\* their order, from the keys held when it began, and the keys held now are
\* the result; it has slept at least the sum of the delays among them; and
\* it reaches its return only with every event run.
C12_InOrder ==
    \A t \in Names :
        (cb[t].pc \in {"exec", "return"} /\ cb[t].seq # <<>>) =>
            LET n == cb[t].i - 1
                g == RunSeq(Gen(cb[t].pressed0), cb[t].seq, n)
            IN  /\ n \in 0 .. Len(cb[t].seq)
                /\ cb[t].trace = g.out
                /\ pressed = g.pressed
                /\ SleptSum(cb[t].trace) >= DelaySum(cb[t].seq, n)
                /\ cb[t].pc = "return" => n = Len(cb[t].seq)

\* C12's case: the pad's sequence of sixteen events, five of them delays,
\* has been run to its end.
C12_Witness ==
    /\ cb["A"].pc = "return"
    /\ cb["A"].seq = pad_seq(pads[1])
    /\ cb["A"].i = Len(cb["A"].seq) + 1
    /\ SleptSum(cb["A"].trace) =
         2 * KEY_DELAY_MS + SYS_DELAY_MS + 2 * MOD_DELAY_MS

\* C13: a NoteMod event that pressed or released something sleeps
\* OCTAVE_DELAY_MS once, after its last press or release; one that pressed
\* and released nothing does not sleep.
C13_SettleDelay ==
    last.event.type = "NoteMod" =>
        LET out == last.out
            n == Cardinality(Presses(out) \cup Releases(out))
        IN  IF n > 0
            THEN /\ Len(out) = n + 1
                 /\ out[n + 1] = Slept(OCTAVE_DELAY_MS)
                 /\ \A i \in 1 .. n : out[i].op # "sleep"
            ELSE /\ out = <<>>
                 /\ last.after = last.before

\* C13's case: with Shift held, NoteMod(none) releases it and sleeps; the
\* NoteMod(Shift) before it changed nothing and did not sleep.
C13_Witness ==
    /\ last.event = NoteMod(NoKey)
    /\ last.out = <<Release(Shift), Slept(OCTAVE_DELAY_MS)>>
    /\ prev.event = NoteMod(Shift)
    /\ prev.out = <<>>

C15_ConnectRetry ==
    /\ [][\A n \in Names :
            /\ Line("unable", n) \in printed' =>
                 /\ midi_ports' = midi_ports
                 /\ n \notin DOMAIN midi_ports'
                 /\ pc' = "ports"
                 /\ ports' = Tail(ports)
            /\ Line("established", n) \in printed' =>
                 /\ n \notin DOMAIN midi_ports
                 /\ midi_ports' = Insert(midi_ports, n, Connection(n))
                 /\ established'[n] = established[n] + 1]_vars
    /\ []( ( /\ pc = "ports"
             /\ ports # <<>>
             /\ Head(ports) \notin DOMAIN midi_ports
             /\ midi_name \in {None, Head(ports)} ) =>
               /\ ENABLED (ConnectOk /\ Logged)
               /\ ENABLED (ConnectErr /\ Logged)
               /\ ~ENABLED (PortKnown /\ Logged)
               /\ ~ENABLED (PortFiltered /\ Logged) )

\* C15's case: the connect to A failed in the first cycle, and in the
\* second cycle, with A first among the ports again, it has succeeded.
C15_Witness ==
    /\ seen_log = << {"A"} >>
    /\ unable = 1
    /\ pc = "ports"
    /\ Len(ports) = MaxPorts - 1
    /\ seen_names = {"A"}
    /\ printed = {Line("established", "A")}
    /\ DOMAIN midi_ports = {"A"}
    /\ established["A"] = 1

\* C16: when a cycle is over, every registered name was seen in it.  The
\* step that ends the cycle takes exactly the names not seen out of the
\* registry, prints one "disconnected" line for each of them and for no
\* other name, and leaves the names seen with the connections they had; no
\* other step prints such a line or takes a name out.
C16_Reaped ==
    /\ [](pc = "sleep" => DOMAIN midi_ports \subseteq seen_names)
    /\ [][IF pc = "ports" /\ pc' = "sleep"
            THEN LET gone == DOMAIN midi_ports \ seen_names
                 IN  /\ DOMAIN midi_ports' = DOMAIN midi_ports \ gone
                     /\ \A n \in DOMAIN midi_ports' :
                          midi_ports'[n] = midi_ports[n]
                     /\ printed' = {Line("disconnected", n) : n \in gone}
                     /\ \A n \in Names :
                          /\ disconnected'[n] =
                               disconnected[n] + IF n \in gone THEN 1 ELSE 0
                          /\ established'[n] = established[n]
            ELSE /\ disconnected' = disconnected
                 /\ DOMAIN midi_ports \subseteq DOMAIN midi_ports']_vars

\* C16's case: the first cycle connected A and B, the second saw B alone
\* and has just disconnected A and kept B.
C16_Witness ==
    /\ seen_log = << {"A", "B"}, {"B"} >>
    /\ pc = "sleep"
    /\ printed = {Line("disconnected", "A")}
    /\ DOMAIN midi_ports = {"B"}
    /\ established["B"] = 1
    /\ disconnected["A"] = 1

\* C17, as claimed: once a cycle has looked at all its ports, every
\* registered name it saw is connected to the device as it is plugged in
\* now, also when the device was replugged between two enumerations: the
\* connection made before the replug has been replaced by a new one.
C17_FreshAfterReappear ==
    (pc = "ports" /\ ports = <<>>) =>
        \A n \in DOMAIN midi_ports \cap seen_names :
            conn_epoch[n] = epoch[n]

\* C18: a name port_name failed for in a cycle is not among the names the
\* cycle has seen (no port is listed twice here).  If it is registered, the
\* step that ends the cycle takes it out of the registry and prints one
\* "disconnected" line for it, so that after the cycle it is not registered
\* although its port was listed.  At a later port of a name that was
\* disconnected and is not registered a connect can succeed, and a connect
\* that succeeds is a new connection, counted and reported as one.
C18_UnresolvedDropped ==
    /\ []((pc = "ports" /\ ports = <<>>) => Unresolved \cap seen_names = {})
    /\ [](pc = "sleep" => Unresolved \cap DOMAIN midi_ports = {})
    /\ [][(pc = "ports" /\ pc' = "sleep") =>
             \A n \in Unresolved \cap DOMAIN midi_ports :
                 /\ n \notin DOMAIN midi_ports'
                 /\ Line("disconnected", n) \in printed'
                 /\ disconnected'[n] = disconnected[n] + 1]_vars
    /\ []( ( /\ pc = "ports"
             /\ ports # <<>>
             /\ disconnected[Head(ports)] > 0
             /\ Head(ports) \notin DOMAIN midi_ports ) =>
               ENABLED (ConnectOk /\ Plugged /\ UNCHANGED unresolved_log) )
    /\ [][\A n \in Names :
             Line("established", n) \in printed' =>
                 /\ n \notin DOMAIN midi_ports
                 /\ n \in DOMAIN midi_ports'
                 /\ established'[n] = established[n] + 1]_vars

\* C18's case: A was connected in the first cycle; in the second its port
\* was listed and its name did not resolve, and it was disconnected; in the
\* third its name resolved and it has been connected again.
C18_Witness ==
    /\ unresolved_log = << {}, {"A"}, {} >>
    /\ seen_log = << {"A"}, {} >>
    /\ seen_names = {"A"}
    /\ printed = {Line("established", "A")}
    /\ "A" \in DOMAIN midi_ports
    /\ established["A"] = 2
    /\ disconnected["A"] = 1

\* C19: a step of the poll loop leaves the held keys, the callbacks and the
\* locks as they are.  The held keys change only in a step in which the
\* holder of the key generator's lock runs an event of its sequence.  The
\* callback of any connection that has locked the key generator finds the
\* keys that are held, whoever pressed them, and with Control among them
\* its NoteMod(Control) presses nothing and does not sleep.
C19_GlobalModifiers ==
    /\ [][mainVars' # mainVars =>
             /\ pressed' = pressed
             /\ cb' = cb
             /\ keygen_lock' = keygen_lock]_vars
    /\ [][pressed' # pressed =>
             \E t \in Names :
                 /\ keygen_lock = t
                 /\ cb[t].pc = "exec"
                 /\ cb'[t].i = cb[t].i + 1
                 /\ mainVars' = mainVars]_vars
    /\ [](\A t \in Names : cb[t].pc = "locked" => cb[t].pressed0 = pressed)
    /\ [](\A t \in Names :
             ( /\ cb[t].pc = "exec"
               /\ cb[t].i = 2
               /\ cb[t].seq[1] = NoteMod(Control)
               /\ cb[t].pressed0 \cap Tracked = {Control} ) =>
                 /\ cb[t].trace = <<>>
                 /\ Control \in pressed)

\* C19's case: A has just been disconnected and B stays; Control and the
\* key t are held and no callback of A is left; B's callback of the first
\* low key found Control held and its NoteMod(Control) did nothing.
C19_Witness ==
    /\ pc = "sleep"
    /\ printed = {Line("disconnected", "A")}
    /\ DOMAIN midi_ports = {"B"}
    /\ cb["A"] = Idle
    /\ cb["B"].pc = "exec"
    /\ cb["B"].raw = NoteOnLow
    /\ cb["B"].i = 2
    /\ cb["B"].pressed0 = {Control, Layout("t")}
    /\ cb["B"].trace = <<>>

\* C20: a NoteMod event whose key is none of the tracked modifiers does
\* what NoteMod(none) does from the same held keys: it presses nothing,
\* releases exactly the tracked modifiers that were held, sleeps exactly if
\* it released one, and leaves every other key, its own included, as it
\* was.
C20_UntrackedAsNone ==
    ( /\ last.event.type = "NoteMod"
      /\ last.event.key \notin Tracked \cup {NoKey} ) =>
        LET none == NoteModEvent(Gen(last.before), NoKey)
        IN  /\ last.out = none.out
            /\ last.after = none.pressed
            /\ Presses(last.out) = {}
            /\ last.after = last.before \ Tracked
            /\ \A k \in Tracked :
                 Times(last.out, Release(k)) =
                     IF k \in last.before THEN 1 ELSE 0
            /\ (last.out # <<>>) = (last.before \cap Tracked # {})

\* C20's case: NoteMod(Alt) with Control held and Alt not: Control is
\* released, and Alt is not pressed.
C20_Witness ==
    /\ last.event = NoteMod(Alt)
    /\ Control \in last.before
    /\ Alt \notin last.before
    /\ last.out = <<Release(Control), Slept(OCTAVE_DELAY_MS)>>
    /\ Alt \notin last.after

====
